---- MODULE Spec2Model ----
(***************************************************************************)
(* AlgeNova client: the page-level solve orchestrator (MathSolverApp,      *)
(* solveMathEquation) and the slash-command LaTeX editor (MathEditor).     *)
(* Text is modelled as sequences of one-character strings.                 *)
(***************************************************************************)
EXTENDS Integers, Sequences, FiniteSets, TLC

\* ------------------------------------------------------------------------
\* Bounds of the model
MaxRequests == 3      \* handleSolveEquation calls that issue a fetch
MaxEdits == 1         \* editor operations applied to an initial buffer
MaxRenders == 3       \* render effects started by one KaTeXRenderer
MaxPosts == 2         \* requests handled by the API route

\* ------------------------------------------------------------------------
VARIABLES
  \* --- MathSolverApp (page) ---
  variant,            \* which MathSolverApp source: "page" | "part002"
  mounted,            \* the host view is mounted
  inputFormula,       \* useState inputFormula
  isLoading,          \* useState isLoading
  errorMessage,       \* useState errorMessage (NULL or a message)
  solutionData,       \* useState solutionData (NoSolution or a solution)
  abortControllerRef, \* useRef: 0 (null) or the index of the controller
  controllers,        \* controllers[i] = TRUE iff signal i is aborted
  pending,            \* requests whose solveMathEquation has not settled
  lastSolve,          \* history: the last page operation
  \* --- MathEditor (part_002) ---
  value,              \* el.value of the textarea
  selStart,           \* el.selectionStart
  selEnd,             \* el.selectionEnd
  hostValue,          \* the host's value, as set through onChange
  slashQ,             \* useState slashQ
  edits,              \* number of editor operations so far
  lastEdit,           \* history: the last editor operation and its pre-state
  \* --- KaTeXRenderer (part_002, part_000) ---
  renderer,           \* which KaTeXRenderer source: "part002" | "part000"
  latex,              \* the latex prop
  html,               \* useState html (NoHtml or the rendered markup)
  effects,            \* the effect runs: [latex, mounted, outcome]
  previewMounted,     \* the renderer component is mounted
  lastRender,         \* history: the last renderer operation
  \* --- API route (part_001) ---
  routeLog            \* history: the requests handled and their responses

pageVars == <<variant, mounted, inputFormula, isLoading, errorMessage,
              solutionData, abortControllerRef, controllers, pending,
              lastSolve>>
editorVars == <<value, selStart, selEnd, hostValue, slashQ, edits, lastEdit>>
previewVars == <<renderer, latex, html, effects, previewMounted, lastRender>>
routeVars == <<routeLog>>
vars == <<pageVars, editorVars, previewVars, routeVars>>

NULL == "null"                 \* null for string-valued state
NoSolution == [req |-> 0]      \* null for solutionData
NoOutcome == [kind |-> "none"] \* history: no transport outcome involved

\* ========================================================================
\* Page: solveMathEquation and MathSolverApp
\* ========================================================================

Whitespace == {" ", "\t", "\n"}

\* String.prototype.trim
RECURSIVE TrimLeft(_)
TrimLeft(s) ==
  IF s # <<>> /\ Head(s) \in Whitespace THEN TrimLeft(Tail(s)) ELSE s

RECURSIVE TrimRight(_)
TrimRight(s) ==
  IF s # <<>> /\ s[Len(s)] \in Whitespace
    THEN TrimRight(SubSeq(s, 1, Len(s) - 1)) ELSE s

Trim_Identity(s) == s

Trim(s) == TrimRight(TrimLeft(s))

\* Formulas the user can have in the input field
Formulas == { <<>>, <<" ">>, <<"x">>, <<" ", "x", " ">> }

MsgCancelled == "Request was cancelled"
MsgConnect ==
  "Unable to connect to math solver server. Please check your connection."
MsgParseFail == "Failed to parse error response"

\* What the transport (fetch + response.json) can do for one request.
\*  ok        : 2xx with a JSON body
\*  badjson   : 2xx, response.json() throws a SyntaxError
\*  http      : non-2xx; body is a JSON error object, JSON without an
\*              error field, or not JSON at all
\*  network   : fetch rejects with a TypeError (message names fetch or not)
\*  abort     : fetch or response.json() rejects with an AbortError
TransportOutcomes ==
  { [kind |-> "ok"],
    [kind |-> "badjson",
     message |-> "Unexpected token < in JSON at position 0"],
    [kind |-> "http", body |-> "error", details |-> "upstream text"],
    [kind |-> "http", body |-> "error", details |-> NULL],
    [kind |-> "http", body |-> "noerror", details |-> NULL],
    [kind |-> "http", body |-> "nonjson", details |-> NULL],
    [kind |-> "network", message |-> "Failed to fetch"],
    [kind |-> "network", message |-> "Load failed"],
    [kind |-> "abort"] }

\* An aborted signal rejects the pending fetch (or body read) with an
\* AbortError; a signal that is not aborted never produces one.
OutcomesFor(aborted) ==
  IF aborted THEN { o \in TransportOutcomes : o.kind = "abort" }
             ELSE { o \in TransportOutcomes : o.kind # "abort" }

\* solveMathEquation: the value it resolves with, or the MathSolverError
\* it throws, for request r and transport outcome o.
solveMathEquation(r, o) ==
  CASE o.kind = "ok" ->
         [ok |-> TRUE, data |-> [req |-> r]]
    [] o.kind = "http" ->
         [ok |-> FALSE,
          message |-> CASE o.body = "error" -> "Math server error"
                        [] o.body = "noerror" -> "HTTP status: statusText"
                        [] o.body = "nonjson" -> MsgParseFail,
          details |-> o.details]
    [] o.kind = "abort" ->
         [ok |-> FALSE, message |-> MsgCancelled, details |-> NULL]
    [] o.kind = "network" ->
         [ok |-> FALSE,
          message |-> IF o.message = "Failed to fetch"
                        THEN MsgConnect ELSE o.message,
          details |-> NULL]
    [] o.kind = "badjson" ->
         [ok |-> FALSE,
          message |-> IF o.message = "Failed to fetch"
                        THEN MsgConnect ELSE o.message,
          details |-> NULL]

\* React drops state updates of a component that is no longer mounted.
SetState(old, new) == IF mounted THEN new ELSE old

\* controllers after `if (ref.current) ref.current.abort()`
AbortCurrent_NoAbort(cs, ref) == cs

AbortCurrent(cs, ref) ==
  IF ref # 0 THEN [cs EXCEPT ![ref] = TRUE] ELSE cs

\* handleSolveEquation up to its await: reset the displayed state, abort the
\* previous controller, create a new one, set isLoading, issue the fetch.
handleSolveEquation ==
  /\ mounted
  /\ IF Trim(inputFormula) = <<>>
       THEN /\ lastSolve' = [op |-> "blank", req |-> 0, out |-> NoOutcome]
            /\ UNCHANGED <<variant, mounted, inputFormula, isLoading,
                           errorMessage, solutionData, abortControllerRef,
                           controllers, pending>>
       ELSE LET new == Len(controllers) + 1 IN
            /\ Len(controllers) < MaxRequests
            /\ errorMessage' = NULL
            /\ solutionData' = NoSolution
            /\ controllers' =
                 Append(AbortCurrent(controllers, abortControllerRef), FALSE)
            /\ abortControllerRef' = new
            /\ isLoading' = TRUE
            /\ pending' = pending \cup {new}
            /\ lastSolve' = [op |-> "submit", req |-> new, out |-> NoOutcome]
            /\ UNCHANGED <<variant, mounted, inputFormula>>
  /\ UNCHANGED <<editorVars, previewVars, routeVars>>

\* finally { setIsLoading(false) }: runs after the try and after the catch.
FinallyIsLoading_CatchOnly(res) == res.ok

FinallyIsLoading(res) == FALSE

\* The continuation of handleSolveEquation for request r after the await:
\* setSolutionData in the try, setErrorMessage in the catch, and
\* setIsLoading(false) in the finally.
Settle(r) ==
  /\ r \in pending
  /\ \E o \in OutcomesFor(controllers[r]) :
       LET res == solveMathEquation(r, o) IN
       /\ solutionData' =
            IF res.ok THEN SetState(solutionData, res.data) ELSE solutionData
       /\ errorMessage' =
            IF res.ok THEN errorMessage
                      ELSE SetState(errorMessage, res.message)
       /\ isLoading' = SetState(isLoading, FinallyIsLoading(res))
       /\ lastSolve' = [op |-> "settle", req |-> r, out |-> o]
  /\ pending' = pending \ {r}
  /\ UNCHANGED <<variant, mounted, inputFormula, abortControllerRef,
                 controllers>>
  /\ UNCHANGED <<editorVars, previewVars, routeVars>>

\* The error the page displays: {errorMessage && ... {errorMessage}}. The
\* catch keeps error.message only; error.details is not stored or rendered.
ShownError == [message |-> errorMessage, details |-> NULL]

\* disabled={!inputFormula.trim() || isLoading}
ButtonDisabled_BlankOnly == Trim(inputFormula) = <<>>

ButtonDisabled == Trim(inputFormula) = <<>> \/ isLoading

\* A click on the Solve button: the handler runs only when it is enabled.
ClickSolve == ~ButtonDisabled /\ handleSolveEquation

\* MathEditor onChange={setInputFormula}, handleExampleClick
SetInputFormula ==
  /\ mounted
  /\ \E f \in Formulas : f # inputFormula /\ inputFormula' = f
  /\ lastSolve' = [op |-> "input", req |-> 0, out |-> NoOutcome]
  /\ UNCHANGED <<variant, mounted, isLoading, errorMessage, solutionData,
                 abortControllerRef, controllers, pending>>
  /\ UNCHANGED <<editorVars, previewVars, routeVars>>

\* The effect cleanup run when MathSolverApp unmounts. Only the page.tsx
\* variant registers one; the part_002 variant has no cleanup.
UnmountCleanup(cs, ref) ==
  IF variant = "page" THEN AbortCurrent(cs, ref) ELSE cs

Unmount ==
  /\ mounted
  /\ mounted' = FALSE
  /\ controllers' = UnmountCleanup(controllers, abortControllerRef)
  /\ lastSolve' = [op |-> "unmount", req |-> 0, out |-> NoOutcome]
  /\ UNCHANGED <<variant, inputFormula, isLoading, errorMessage,
                 solutionData, abortControllerRef, pending>>
  /\ UNCHANGED <<editorVars, previewVars, routeVars>>

EditorIdle ==
  /\ value = <<>> /\ selStart = 0 /\ selEnd = 0 /\ hostValue = <<>>
  /\ slashQ = <<>> /\ edits = 0
  /\ lastEdit = [op |-> "init", key |-> "", arg |-> <<>>, expanded |-> FALSE,
                 el |-> [value |-> <<>>, selStart |-> 0, selEnd |-> 0]]

NoHtml == [tex |-> <<"null">>]     \* null for html

PreviewIdle ==
  /\ renderer = "part002" /\ latex = <<>> /\ html = NoHtml
  /\ effects = <<>> /\ previewMounted = FALSE
  /\ lastRender = [op |-> "init", eff |-> 0]

RouteIdle == routeLog = <<>>

PageIdle ==
  /\ mounted = TRUE
  /\ inputFormula = <<>>
  /\ isLoading = FALSE
  /\ errorMessage = NULL
  /\ solutionData = NoSolution
  /\ abortControllerRef = 0
  /\ controllers = <<>>
  /\ pending = {}
  /\ lastSolve = [op |-> "init", req |-> 0, out |-> NoOutcome]

SolveInit ==
  /\ variant \in {"page", "part002"}
  /\ PageIdle
  /\ EditorIdle
  /\ PreviewIdle
  /\ RouteIdle

SolveNext ==
  \/ handleSolveEquation
  \/ \E r \in 1..MaxRequests : Settle(r)
  \/ SetInputFormula
  \/ Unmount

SolveSpec == SolveInit /\ [][SolveNext]_vars

\* The page driven through its controls only
ControlsNext ==
  \/ ClickSolve
  \/ \E r \in 1..MaxRequests : Settle(r)
  \/ SetInputFormula
  \/ Unmount

ControlsSpec == SolveInit /\ [][ControlsNext]_vars

\* Every issued fetch eventually settles.
SolveLiveSpec ==
  SolveSpec /\ \A r \in 1..MaxRequests : WF_vars(Settle(r))

\* ========================================================================
\* Editor: MathEditor of part_002 (slash commands, smart pairs, palette)
\* ========================================================================

\* String.prototype.slice(a, b) and slice(a) on 0-based positions
Slice(s, a, b) == SubSeq(s, a + 1, b)
SliceFrom(s, a) == SubSeq(s, a + 1, Len(s))

\* The character class [a-zA-Z0-9_]
IdentChars ==
  { "a", "b", "c", "d", "e", "f", "g", "h", "i", "j", "k", "l", "m",
    "n", "o", "p", "q", "r", "s", "t", "u", "v", "w", "x", "y", "z",
    "A", "B", "C", "D", "E", "F", "G", "H", "I", "J", "K", "L", "M",
    "N", "O", "P", "Q", "R", "S", "T", "U", "V", "W", "X", "Y", "Z",
    "0", "1", "2", "3", "4", "5", "6", "7", "8", "9", "_" }

\* Length of the longest suffix of text made of identifier characters
RECURSIVE IdentRun(_)
IdentRun(text) ==
  IF text # <<>> /\ text[Len(text)] \in IdentChars
    THEN 1 + IdentRun(SubSeq(text, 1, Len(text) - 1))
    ELSE 0

\* /\/(?:[a-zA-Z0-9_]+)$/.exec(text): length of match[0], 0 when no match
MatchSlashPlus(text) ==
  LET n == IdentRun(text) IN
  IF n >= 1 /\ Len(text) > n /\ text[Len(text) - n] = "/" THEN n + 1 ELSE 0

\* /\/(?:[a-zA-Z0-9_]*)$/.exec(text): length of match[0], 0 when no match
MatchSlashStar(text) ==
  LET n == IdentRun(text) IN
  IF Len(text) > n /\ text[Len(text) - n] = "/" THEN n + 1 ELSE 0

\* COMMAND_TEMPLATES in declaration order. A template with arg = TRUE is
\* (sel = "") => pre + sel + post; one with arg = FALSE is () => pre.
COMMAND_TEMPLATES == <<
  [name |-> <<"f", "r", "a", "c">>,
   arg |-> TRUE,
   pre |-> <<"\\", "f", "r", "a", "c", "{">>,
   post |-> <<"}", "{", "}">>],
  [name |-> <<"s", "q", "r", "t">>,
   arg |-> TRUE,
   pre |-> <<"\\", "s", "q", "r", "t", "{">>,
   post |-> <<"}">>],
  [name |-> <<"c", "b", "r", "t">>,
   arg |-> TRUE,
   pre |-> <<"\\", "s", "q", "r", "t", "[", "3", "]", "{">>,
   post |-> <<"}">>],
  [name |-> <<"n", "t", "h", "r", "o", "o", "t">>,
   arg |-> TRUE,
   pre |-> <<"\\", "s", "q", "r", "t", "[", "]", "{">>,
   post |-> <<"}">>],
  [name |-> <<"p", "o", "w">>,
   arg |-> TRUE,
   pre |-> <<"{">>,
   post |-> <<"}", "^", "{", "}">>],
  [name |-> <<"s", "u", "b">>,
   arg |-> TRUE,
   pre |-> <<"{">>,
   post |-> <<"}", "_", "{", "}">>],
  [name |-> <<"a", "b", "s">>,
   arg |-> TRUE,
   pre |-> <<"\\", "l", "e", "f", "t", "|">>,
   post |-> <<"\\", "r", "i", "g", "h", "t", "|">>],
  [name |-> <<"f", "l", "o", "o", "r">>,
   arg |-> TRUE,
   pre |-> <<"\\", "l", "e", "f", "t", "\\", "l", "f", "l", "o", "o", "r",
             " ">>,
   post |-> <<" ", "\\", "r", "i", "g", "h", "t", "\\", "r", "f", "l", "o",
              "o", "r">>],
  [name |-> <<"c", "e", "i", "l">>,
   arg |-> TRUE,
   pre |-> <<"\\", "l", "e", "f", "t", "\\", "l", "c", "e", "i", "l", " ">>,
   post |-> <<" ", "\\", "r", "i", "g", "h", "t", "\\", "r", "c", "e", "i",
              "l">>],
  [name |-> <<"p", "a", "r", "e", "n">>,
   arg |-> TRUE,
   pre |-> <<"\\", "l", "e", "f", "t", "(">>,
   post |-> <<"\\", "r", "i", "g", "h", "t", ")">>],
  [name |-> <<"b", "r", "a", "c", "k", "e", "t">>,
   arg |-> TRUE,
   pre |-> <<"\\", "l", "e", "f", "t", "[">>,
   post |-> <<"\\", "r", "i", "g", "h", "t", "]">>],
  [name |-> <<"b", "r", "a", "c", "e">>,
   arg |-> TRUE,
   pre |-> <<"\\", "l", "e", "f", "t", "\\", "{">>,
   post |-> <<"\\", "r", "i", "g", "h", "t", "\\", "}">>],
  [name |-> <<"i", "n", "t">>,
   arg |-> FALSE,
   pre |-> <<"\\", "i", "n", "t", "_", "{", " ", "}", "^", "{", " ", "}",
             " ", "\\", ";", " ", "\\", "\n">>,
   post |-> <<>>],
  [name |-> <<"d", "i", "n", "t">>,
   arg |-> FALSE,
   pre |-> <<"\\", "i", "n", "t", "\\", "!", "\\", "i", "n", "t", "_", "{",
             " ", "}", "^", "{", " ", "}", " ", "\\", ";", " ", "\\", "\n">>,
   post |-> <<>>],
  [name |-> <<"s", "u", "m">>,
   arg |-> FALSE,
   pre |-> <<"\\", "s", "u", "m", "_", "{", "n", "=", " ", "}", "^", "{",
             " ", "}", " ">>,
   post |-> <<>>],
  [name |-> <<"p", "r", "o", "d">>,
   arg |-> FALSE,
   pre |-> <<"\\", "p", "r", "o", "d", "_", "{", "n", "=", " ", "}", "^",
             "{", " ", "}", " ">>,
   post |-> <<>>],
  [name |-> <<"l", "i", "m">>,
   arg |-> FALSE,
   pre |-> <<"\\", "l", "i", "m", "_", "{", "x", " ", "\\", "t", "o", " ",
             "}", " ">>,
   post |-> <<>>],
  [name |-> <<"d", "i", "f", "f">>,
   arg |-> TRUE,
   pre |-> <<"\\", "f", "r", "a", "c", "{", "d", "}", "{", "d", "x", "}",
             "\\", "l", "e", "f", "t", "(">>,
   post |-> <<"\\", "r", "i", "g", "h", "t", ")">>],
  [name |-> <<"p", "d", "i", "f", "f">>,
   arg |-> TRUE,
   pre |-> <<"\\", "f", "r", "a", "c", "{", "\\", "p", "a", "r", "t", "i",
             "a", "l", "}", "{", "\\", "p", "a", "r", "t", "i", "a", "l",
             " ", "x", "}", "\\", "l", "e", "f", "t", "(">>,
   post |-> <<"\\", "r", "i", "g", "h", "t", ")">>],
  [name |-> <<"s", "i", "n">>,
   arg |-> TRUE,
   pre |-> <<"\\", "s", "i", "n", "\\", "l", "e", "f", "t", "(">>,
   post |-> <<"\\", "r", "i", "g", "h", "t", ")">>],
  [name |-> <<"c", "o", "s">>,
   arg |-> TRUE,
   pre |-> <<"\\", "c", "o", "s", "\\", "l", "e", "f", "t", "(">>,
   post |-> <<"\\", "r", "i", "g", "h", "t", ")">>],
  [name |-> <<"t", "a", "n">>,
   arg |-> TRUE,
   pre |-> <<"\\", "t", "a", "n", "\\", "l", "e", "f", "t", "(">>,
   post |-> <<"\\", "r", "i", "g", "h", "t", ")">>],
  [name |-> <<"l", "n">>,
   arg |-> TRUE,
   pre |-> <<"\\", "l", "n", "\\", "l", "e", "f", "t", "(">>,
   post |-> <<"\\", "r", "i", "g", "h", "t", ")">>],
  [name |-> <<"l", "o", "g">>,
   arg |-> TRUE,
   pre |-> <<"\\", "l", "o", "g", "\\", "l", "e", "f", "t", "(">>,
   post |-> <<"\\", "r", "i", "g", "h", "t", ")">>],
  [name |-> <<"l", "o", "g", "b">>,
   arg |-> TRUE,
   pre |-> <<"\\", "l", "o", "g", "_", "{", " ", "}", "\\", "l", "e", "f",
             "t", "(">>,
   post |-> <<"\\", "r", "i", "g", "h", "t", ")">>],
  [name |-> <<"v", "e", "c">>,
   arg |-> TRUE,
   pre |-> <<"\\", "v", "e", "c", "{">>,
   post |-> <<"}">>],
  [name |-> <<"h", "a", "t">>,
   arg |-> TRUE,
   pre |-> <<"\\", "h", "a", "t", "{">>,
   post |-> <<"}">>],
  [name |-> <<"o", "v", "e", "r", "l", "i", "n", "e">>,
   arg |-> TRUE,
   pre |-> <<"\\", "o", "v", "e", "r", "l", "i", "n", "e", "{">>,
   post |-> <<"}">>],
  [name |-> <<"m", "a", "t", "r", "i", "x", "2">>,
   arg |-> FALSE,
   pre |-> <<"\\", "b", "e", "g", "i", "n", "{", "b", "m", "a", "t", "r",
             "i", "x", "}", " ", "\\", ";", " ", "&", " ", "\\", ";", " ",
             "\\", "\\", " ", "\\", ";", " ", "&", " ", "\\", ";", " ",
             "\\", "e", "n", "d", "{", "b", "m", "a", "t", "r", "i", "x",
             "}">>,
   post |-> <<>>],
  [name |-> <<"m", "a", "t", "r", "i", "x", "3">>,
   arg |-> FALSE,
   pre |-> <<"\\", "b", "e", "g", "i", "n", "{", "b", "m", "a", "t", "r",
             "i", "x", "}", " ", "\\", ";", " ", "&", " ", "\\", ";", " ",
             "&", " ", "\\", ";", " ", "\\", "\\", " ", "\\", ";", " ",
             "&", " ", "\\", ";", " ", "&", " ", "\\", ";", " ", "\\",
             "\\", " ", "\\", ";", " ", "&", " ", "\\", ";", " ", "&", " ",
             "\\", ";", " ", "\\", "e", "n", "d", "{", "b", "m", "a", "t",
             "r", "i", "x", "}">>,
   post |-> <<>>],
  [name |-> <<"t", "e", "x", "t">>,
   arg |-> TRUE,
   pre |-> <<"\\", "t", "e", "x", "t", "{">>,
   post |-> <<"}">>]
>>

\* Object.keys(COMMAND_TEMPLATES)
ALL_COMMANDS == [i \in 1..Len(COMMAND_TEMPLATES) |-> COMMAND_TEMPLATES[i].name]

CommandNames == { ALL_COMMANDS[i] : i \in 1..Len(ALL_COMMANDS) }

Entry(cmd) ==
  COMMAND_TEMPLATES[CHOOSE i \in 1..Len(COMMAND_TEMPLATES) :
                      COMMAND_TEMPLATES[i].name = cmd]

\* COMMAND_TEMPLATES[cmd](sel)
Template(cmd, sel) ==
  LET e == Entry(cmd) IN
  IF e.arg THEN e.pre \o sel \o e.post ELSE e.pre

\* COMMAND_TEMPLATES is an object literal, so templates[cmd] also finds the
\* properties it inherits from Object.prototype. Two of them are callable
\* with a string without throwing:
\*   constructor : Object(sel) is a String object, which concatenates as sel
\*   toString    : called without a receiver gives "[object Undefined]"
InheritedConstructor == <<"c", "o", "n", "s", "t", "r", "u", "c", "t", "o", "r">>
InheritedToString == <<"t", "o", "S", "t", "r", "i", "n", "g">>
InheritedKeys == { InheritedConstructor, InheritedToString }

ObjectUndefined ==
  <<"[", "o", "b", "j", "e", "c", "t", " ",
    "U", "n", "d", "e", "f", "i", "n", "e", "d", "]">>

\* The truthiness test `if (!template) return false` of templates[cmd]
TemplateLookup(cmd) == cmd \in CommandNames \cup InheritedKeys

\* template(selected) for a cmd that passed the test
Snippet(cmd, selected) ==
  CASE cmd \in CommandNames -> Template(cmd, selected)
    [] cmd = InheritedConstructor -> selected
    [] cmd = InheritedToString -> ObjectUndefined

\* The textarea element: value, selectionStart, selectionEnd
El == [value |-> value, selStart |-> selStart, selEnd |-> selEnd]

insertAtCursor_KeepSelection(el, text) ==
  LET before == Slice(el.value, 0, el.selStart)
      after == SliceFrom(el.value, el.selStart)
      pos == el.selStart + Len(text)
  IN [value |-> before \o text \o after, selStart |-> pos, selEnd |-> pos]

insertAtCursor(el, text) ==
  LET before == Slice(el.value, 0, el.selStart)
      after == SliceFrom(el.value, el.selEnd)
      pos == el.selStart + Len(text)
  IN [value |-> before \o text \o after, selStart |-> pos, selEnd |-> pos]

\* const caret = prefix.length + next.length
WrapCaret_InsideSuffix(prefix, next) == Len(prefix) + Len(next) - 1

WrapCaret(prefix, next) == Len(prefix) + Len(next)

\* const next = `${beforeWrap}${sel}${afterWrap}`
WrapNext_DropSelection(beforeWrap, sel, afterWrap) == beforeWrap \o afterWrap

WrapNext(beforeWrap, sel, afterWrap) == beforeWrap \o sel \o afterWrap

wrapSelection(el, beforeWrap, afterWrap) ==
  LET sel == Slice(el.value, el.selStart, el.selEnd)
      next == WrapNext(beforeWrap, sel, afterWrap)
      prefix == Slice(el.value, 0, el.selStart)
      suffix == SliceFrom(el.value, el.selEnd)
      caret == WrapCaret(prefix, next)
  IN [value |-> prefix \o next \o suffix, selStart |-> caret, selEnd |-> caret]

\* const selStart = pos - match[0].length
MatchStart_KeepSlash(pos, mlen) == pos - mlen + 1

MatchStart(pos, mlen) == pos - mlen

\* const newPos = before.length + snippet.length
NewPos_BeforeSnippet(before, snippet) == Len(before)

NewPos(before, snippet) == Len(before) + Len(snippet)

\* const after = el.value.slice(pos)
ExpandAfter_Dropped(text, pos) == <<>>

ExpandAfter(text, pos) == SliceFrom(text, pos)

\* expandSlashCommand: [expanded, el] where expanded is its return value
expandSlashCommand(el) ==
  LET pos == el.selStart
      text == Slice(el.value, 0, pos)
      mlen == MatchSlashPlus(text)
      cmd == Slice(text, pos - mlen + 1, pos)
  IN IF mlen = 0 \/ ~TemplateLookup(cmd)
       THEN [expanded |-> FALSE, el |-> el]
       ELSE LET start == MatchStart(pos, mlen)
                before == Slice(el.value, 0, start)
                after == ExpandAfter(el.value, pos)
                selected == IF el.selEnd > pos
                              THEN Slice(el.value, pos, el.selEnd) ELSE <<>>
                snippet == Snippet(cmd, selected)
                newPos == NewPos(before, snippet)
            IN [expanded |-> TRUE,
                el |-> [value |-> before \o snippet \o after,
                        selStart |-> newPos, selEnd |-> newPos]]

\* refreshSlashQuery: the new slashQ for the element
refreshSlashQuery(el) ==
  LET left == Slice(el.value, 0, el.selStart)
      mlen == MatchSlashStar(left)
  IN IF mlen = 0 THEN <<>> ELSE Slice(left, Len(left) - mlen + 1, Len(left))

\* Keys of the model: the four trigger keys, the intercepted keys, and two
\* ordinary characters.
TriggerKeys == { " ", "Enter", "Tab", ")" }
PairKeys == { "(", "[", "{" }
Keys == TriggerKeys \cup PairKeys \cup { "^", "_", "a", "/" }

\* const pairs = { "(": ")", "[": "]", "{": "}" }
pairs_Same(k) == k

pairs(k) == CASE k = "(" -> ")" [] k = "[" -> "]" [] k = "{" -> "}"

\* insertAtCursor(el, "\\, ")
ThinSpace_TabChar == <<"\t">>

ThinSpace == <<"\\", ",", " ">>

\* The text the browser inserts for a key whose default is not prevented
KeyText(k) == IF k = "Enter" THEN <<"\n">> ELSE <<k>>

\* handleKeyDown followed by the browser's default action when the handler
\* did not prevent it: [expanded, el]
handleKeyDown(el, k) ==
  LET x == IF k \in TriggerKeys THEN expandSlashCommand(el)
                                ELSE [expanded |-> FALSE, el |-> el]
  IN CASE x.expanded -> x
       [] ~x.expanded /\ k \in PairKeys ->
            [expanded |-> FALSE, el |-> wrapSelection(el, <<k>>, <<pairs(k)>>)]
       [] ~x.expanded /\ k = "^" ->
            [expanded |-> FALSE,
             el |-> wrapSelection(el, <<"{", "}", "^", "{">>, <<"}">>)]
       [] ~x.expanded /\ k = "_" ->
            [expanded |-> FALSE,
             el |-> wrapSelection(el, <<"{", "}", "_", "{">>, <<"}">>)]
       [] ~x.expanded /\ k = "Tab" ->
            [expanded |-> FALSE, el |-> insertAtCursor(el, ThinSpace)]
       [] OTHER ->
            [expanded |-> FALSE, el |-> insertAtCursor(el, KeyText(k))]

\* el.dispatchEvent(new Event("input")) and the browser's own input event:
\* onInput runs and its onChange(e.target.value) hands the element's value
\* to the host. The result is the host's value.
DispatchInput_Swallowed(el) == hostValue

DispatchInput(el) == el.value

\* setSlashQ(q): the new state of slashQ
setSlashQ_Dropped(q) == slashQ

setSlashQ(q) == q

\* The state after an operation that left the element as el2, dispatched an
\* input event and called refreshSlashQuery.
Commit(el2, rec) ==
  /\ value' = el2.value
  /\ selStart' = el2.selStart
  /\ selEnd' = el2.selEnd
  /\ hostValue' = DispatchInput(el2)
  /\ slashQ' = setSlashQ(refreshSlashQuery(el2))
  /\ lastEdit' = rec
  /\ edits' = edits + 1
  /\ UNCHANGED <<pageVars, previewVars, routeVars>>

\* One key press: keydown, the input event it causes (onInput: onChange and
\* refreshSlashQuery), and keyup (refreshSlashQuery).
KeyDown(k) ==
  /\ edits < MaxEdits
  /\ LET x == handleKeyDown(El, k) IN
     Commit(x.el, [op |-> "key", key |-> k, arg |-> <<>>,
                   expanded |-> x.expanded, el |-> El])

\* String.prototype.toLowerCase
Uppers ==
  <<"A", "B", "C", "D", "E", "F", "G", "H", "I", "J", "K", "L", "M",
    "N", "O", "P", "Q", "R", "S", "T", "U", "V", "W", "X", "Y", "Z">>
Lowers ==
  <<"a", "b", "c", "d", "e", "f", "g", "h", "i", "j", "k", "l", "m",
    "n", "o", "p", "q", "r", "s", "t", "u", "v", "w", "x", "y", "z">>

toLowerChar(c) ==
  IF \E i \in 1..Len(Uppers) : Uppers[i] = c
    THEN Lowers[CHOOSE i \in 1..Len(Uppers) : Uppers[i] = c]
    ELSE c

toLowerCase_Identity(str) == str

toLowerCase(str) == [i \in 1..Len(str) |-> toLowerChar(str[i])]

\* String.prototype.startsWith
startsWith(k, q) == Len(q) <= Len(k) /\ SubSeq(k, 1, Len(q)) = q

\* .slice(0, 8)
PaletteLimit == 8

\* Palette, the useMemo: ALL_COMMANDS.filter(k => k.startsWith(q)).slice(0, 8)
PaletteItems(query) ==
  LET q == toLowerCase(query)
      matching == SelectSeq(ALL_COMMANDS, LAMBDA k : startsWith(k, q))
  IN SubSeq(matching, 1,
            IF Len(matching) < PaletteLimit THEN Len(matching)
                                            ELSE PaletteLimit)

\* Palette, what is offered: nothing for the empty query (the component
\* returns null, and MathEditor renders it only when slashQ !== "")
PaletteShown(query) == IF query = <<>> THEN <<>> ELSE PaletteItems(query)

\* pickCommand(cmd)
\* el.setSelectionRange(caret, caret) in pickCommand: the new selectionEnd
PickSelEnd_KeepEnd(el, caret) == el.selEnd

PickSelEnd(el, caret) == caret

pickCommand(el, cmd) ==
  LET pos == el.selStart
      left == Slice(el.value, 0, pos)
      mlen == MatchSlashStar(left)
      start == IF mlen # 0 THEN pos - mlen ELSE pos
      before == Slice(el.value, 0, start)
      after == SliceFrom(el.value, pos)
      snippet == Template(cmd, <<>>)
      caret == Len(before \o snippet)
  IN [value |-> before \o snippet \o after,
      selStart |-> caret, selEnd |-> PickSelEnd(el, caret)]

\* A click on entry i of the suggestion list shown for slashQ
PickCommand(i) ==
  /\ edits < MaxEdits
  /\ i \in 1..Len(PaletteShown(slashQ))
  /\ LET cmd == PaletteShown(slashQ)[i] IN
     Commit(pickCommand(El, cmd),
            [op |-> "pick", key |-> "", arg |-> cmd, expanded |-> TRUE,
             el |-> El])

\* The symbol palette: the latex of every item, in declaration order
PALETTE == <<
  <<"=">>,
  <<"+">>,
  <<"-">>,
  <<"\\", "c", "d", "o", "t">>,
  <<"\\", "d", "i", "v">>,
  <<"\\", "p", "m">>,
  <<"\\", "n", "e">>,
  <<"\\", "a", "p", "p", "r", "o", "x">>,
  <<"\\", "l", "e">>,
  <<"\\", "g", "e">>,
  Template(<<"f", "r", "a", "c">>, <<>>),
  Template(<<"s", "q", "r", "t">>, <<>>),
  Template(<<"p", "o", "w">>, <<>>),
  Template(<<"s", "u", "b">>, <<>>),
  Template(<<"a", "b", "s">>, <<>>),
  Template(<<"p", "a", "r", "e", "n">>, <<>>),
  Template(<<"b", "r", "a", "c", "k", "e", "t">>, <<>>),
  Template(<<"b", "r", "a", "c", "e">>, <<>>),
  Template(<<"i", "n", "t">>, <<>>),
  Template(<<"s", "u", "m">>, <<>>),
  Template(<<"p", "r", "o", "d">>, <<>>),
  Template(<<"l", "i", "m">>, <<>>),
  Template(<<"d", "i", "f", "f">>, <<>>),
  Template(<<"p", "d", "i", "f", "f">>, <<>>),
  <<"\\", "p", "i">>,
  <<"e">>,
  <<"\\", "i", "n", "f", "t", "y">>,
  <<"\\", "t", "h", "e", "t", "a">>,
  <<"\\", "l", "a", "m", "b", "d", "a">>,
  <<"\\", "v", "a", "r", "p", "h", "i">>,
  Template(<<"s", "i", "n">>, <<>>),
  Template(<<"c", "o", "s">>, <<>>),
  Template(<<"t", "a", "n">>, <<>>),
  Template(<<"l", "n">>, <<>>),
  Template(<<"l", "o", "g">>, <<>>),
  Template(<<"l", "o", "g", "b">>, <<>>),
  Template(<<"v", "e", "c">>, <<"v">>),
  Template(<<"h", "a", "t">>, <<"x">>),
  Template(<<"o", "v", "e", "r", "l", "i", "n", "e">>, <<"x">>),
  Template(<<"m", "a", "t", "r", "i", "x", "2">>, <<>>),
  Template(<<"m", "a", "t", "r", "i", "x", "3">>, <<>>)
>>

\* A click on item i of the symbol palette: insertAtCursor(el, item.latex)
PaletteClick(i) ==
  /\ edits < MaxEdits
  /\ i \in 1..Len(PALETTE)
  /\ Commit(insertAtCursor(El, PALETTE[i]),
            [op |-> "palette", key |-> "", arg |-> PALETTE[i],
             expanded |-> FALSE, el |-> El])

\* clearAll: onChange("") and focus. The host's value becomes "" and the
\* controlled textarea is re-rendered with it; neither an input event nor
\* refreshSlashQuery happens.
clearAll ==
  /\ edits < MaxEdits
  /\ hostValue' = <<>>
  /\ value' = <<>>
  /\ selStart' = 0
  /\ selEnd' = 0
  /\ lastEdit' = [op |-> "clear", key |-> "", arg |-> <<>>,
                  expanded |-> FALSE, el |-> El]
  /\ edits' = edits + 1
  /\ UNCHANGED slashQ
  /\ UNCHANGED <<pageVars, previewVars, routeVars>>

\* Buffers the user has typed, with the caret or a selection placed right
\* after the typed text: prefix, optional "/query", selected text, rest.
InitPrefixes == { <<>>, <<"x", "=">>, <<"a", "/", "b">> }
InitSelections == { <<>>, <<"x", "+", "1">> }
InitRests == { <<>>, <<"y">> }
InitQueries ==
  CommandNames \cup InheritedKeys \cup
  { <<>>, <<"s">>, <<"f", "r", "a">>, <<"F", "r", "a", "c">>,
    <<"S", "Q", "R", "T">>, <<"f", "o", "o">>, <<"h", "e", "l", "p">>,
    <<"f", "r", "a", "c", "2">> }
InitTokens == { <<>> } \cup { <<"/">> \o q : q \in InitQueries }

EditorInit ==
  /\ variant = "page"
  /\ PageIdle
  /\ PreviewIdle
  /\ RouteIdle
  /\ \E p \in InitPrefixes, t \in InitTokens,
        s \in InitSelections, r \in InitRests :
       /\ value = p \o t \o s \o r
       /\ selStart = Len(p \o t)
       /\ selEnd = Len(p \o t \o s)
  /\ hostValue = value
  /\ slashQ = refreshSlashQuery(El)
  /\ edits = 0
  /\ lastEdit = [op |-> "init", key |-> "", arg |-> <<>>, expanded |-> FALSE,
                 el |-> El]

EditorNext ==
  \/ \E k \in Keys : KeyDown(k)
  \/ \E i \in 1..PaletteLimit : PickCommand(i)
  \/ \E i \in 1..Len(PALETTE) : PaletteClick(i)
  \/ clearAll

EditorSpec == EditorInit /\ [][EditorNext]_vars

\* ========================================================================
\* Preview: KaTeXRenderer (part_002 with cleanLatex, part_000 without)
\* ========================================================================

\* The regex class \s, for the characters of the model
RegexSpace == {" ", "\t", "\n"}

\* formula.replace(/\n/g, " ")
ReplaceNewlines(f) ==
  [i \in 1..Len(f) |-> IF f[i] = "\n" THEN " " ELSE f[i]]

RECURSIVE SkipSpaces(_)
SkipSpaces(f) ==
  IF f # <<>> /\ Head(f) \in RegexSpace THEN SkipSpaces(Tail(f)) ELSE f

\* formula.replace(/\s+/g, " ")
RECURSIVE CollapseSpaces(_)
CollapseSpaces(f) ==
  IF f = <<>> THEN <<>>
  ELSE IF Head(f) \in RegexSpace
    THEN <<" ">> \o CollapseSpaces(SkipSpaces(Tail(f)))
    ELSE <<Head(f)>> \o CollapseSpaces(Tail(f))

\* formula.replace(/\\,/g, " ")
RECURSIVE ReplaceThinSpaces(_)
ReplaceThinSpaces(f) ==
  IF f = <<>> THEN <<>>
  ELSE IF Len(f) >= 2 /\ f[1] = "\\" /\ f[2] = ","
    THEN <<" ">> \o ReplaceThinSpaces(SubSeq(f, 3, Len(f)))
    ELSE <<Head(f)>> \o ReplaceThinSpaces(Tail(f))

cleanLatex(f) == ReplaceThinSpaces(CollapseSpaces(ReplaceNewlines(f)))

\* The first argument of renderToString: cleanLatex(latex) || "\\," in
\* part_002, latex || "\\," in part_000
RenderInput(t) ==
  LET src == IF renderer = "part002" THEN cleanLatex(t) ELSE t
  IN IF src = <<>> THEN <<"\\", ",">> ELSE src

\* katex.renderToString: the markup is a function of its input
renderToString(src) == [tex |-> src]

\* What the asynchronous body of the effect can do: the import and the
\* render succeed, or one of them throws.
RenderOutcomes == {"ok", "throw"}

\* Texts the renderer is given
PreviewTexts ==
  { <<>>, <<"x">>, <<"x", " ", " ", "y">>, <<"x", "\\", ",", "y">>,
    <<"x", "\n", "y">> }

\* The effect's cleanup: mounted = false in the closure of the last run
EffectCleanup_None(es) == es

EffectCleanup(es) ==
  IF es = <<>> THEN es ELSE [es EXCEPT ![Len(es)].mounted = FALSE]

\* A new run of the effect for text t
StartEffect(es, t) ==
  Append(es, [latex |-> t, mounted |-> TRUE, outcome |-> "pending"])

\* The latex prop changes: React runs the cleanup of the previous effect
\* run and then the effect for the new text.
SetLatex(t) ==
  /\ previewMounted
  /\ t # latex
  /\ Len(effects) < MaxRenders
  /\ latex' = t
  /\ effects' = StartEffect(EffectCleanup(effects), t)
  /\ lastRender' = [op |-> "latex", eff |-> Len(effects) + 1]
  /\ UNCHANGED <<renderer, html, previewMounted>>
  /\ UNCHANGED <<pageVars, editorVars, routeVars>>

\* catch (e) { if (mounted) setHtml(null) }
CatchHtml_Keep(h) == h

CatchHtml(h) == NoHtml

\* The asynchronous body of effect run i completes with outcome o.
RenderSettle(i, o) ==
  /\ i \in 1..Len(effects)
  /\ effects[i].outcome = "pending"
  /\ html' =
       IF ~effects[i].mounted THEN html
       ELSE IF o = "ok"
         THEN renderToString(RenderInput(effects[i].latex))
         ELSE CatchHtml(html)
  /\ effects' = [effects EXCEPT ![i].outcome = o]
  /\ lastRender' = [op |-> "settle", eff |-> i]
  /\ UNCHANGED <<renderer, latex, previewMounted>>
  /\ UNCHANGED <<pageVars, editorVars, routeVars>>

\* The component unmounts: the cleanup of the last effect run
PreviewUnmount ==
  /\ previewMounted
  /\ previewMounted' = FALSE
  /\ effects' = EffectCleanup(effects)
  /\ lastRender' = [op |-> "unmount", eff |-> 0]
  /\ UNCHANGED <<renderer, latex, html>>
  /\ UNCHANGED <<pageVars, editorVars, routeVars>>

\* What the component shows: the raw text in a <pre> while html is null,
\* the markup otherwise.
Shown ==
  IF html = NoHtml THEN [kind |-> "raw", text |-> latex]
                   ELSE [kind |-> "markup", text |-> html.tex]

\* The state after the first render: html is null and the effect runs.
PreviewInit ==
  /\ variant = "page"
  /\ PageIdle
  /\ EditorIdle
  /\ RouteIdle
  /\ renderer \in {"part002", "part000"}
  /\ latex \in PreviewTexts
  /\ html = NoHtml
  /\ effects = StartEffect(<<>>, latex)
  /\ previewMounted = TRUE
  /\ lastRender = [op |-> "mount", eff |-> 1]

PreviewNext ==
  \/ \E t \in PreviewTexts : SetLatex(t)
  \/ \E i \in 1..MaxRenders, o \in RenderOutcomes : RenderSettle(i, o)
  \/ PreviewUnmount

PreviewSpec == PreviewInit /\ [][PreviewNext]_vars

\* ========================================================================
\* API route: POST /api/math/solve (part_001)
\* ========================================================================

Undefined == <<"undefined">>      \* a property the body does not have

\* Request bodies: text that is not JSON, the JSON value null, and JSON
\* objects without a formula, with an empty one and with non-empty ones.
RequestBodies ==
  { [kind |-> "invalid", formula |-> Undefined],
    [kind |-> "null", formula |-> Undefined],
    [kind |-> "object", formula |-> Undefined],
    [kind |-> "object", formula |-> <<>>],
    [kind |-> "object", formula |-> <<"x">>],
    [kind |-> "object", formula |-> <<" ">>] }

\* What the upstream math server can do with a forwarded request
UpstreamOutcomes ==
  { [kind |-> "refused"],          \* fetch rejects
    [kind |-> "status", status |-> 404],      \* non-2xx
    [kind |-> "status", status |-> 500],
    [kind |-> "json"],             \* 2xx, JSON content type, valid body
    [kind |-> "badjson"],          \* 2xx, JSON content type, malformed body
    [kind |-> "textjson"],         \* 2xx, other content type, body parses
    [kind |-> "text"] }            \* 2xx, other content type, not JSON

NoUpstream == [kind |-> "none"]

\* !body.formula
Falsy(formula) == formula = Undefined \/ formula = <<>>

RouteResponse(status, error) == [status |-> status, error |-> error]

\* POST: the response and whether the upstream server was contacted
POST(body, up) ==
  CASE body.kind = "invalid" ->
         \* request.json() throws a SyntaxError
         [sent |-> FALSE, res |-> RouteResponse(500, "Internal server error")]
    [] body.kind = "null" ->
         \* body.formula throws a TypeError
         [sent |-> FALSE, res |-> RouteResponse(500, "Internal server error")]
    [] body.kind = "object" /\ Falsy(body.formula) ->
         [sent |-> FALSE, res |-> RouteResponse(400, "Formula is required")]
    [] OTHER ->
         [sent |-> TRUE,
          res |->
            CASE up.kind = "refused" ->
                   RouteResponse(503, "Unable to connect to math solver server")
              [] up.kind = "status" ->
                   RouteResponse(up.status,
                                 "Math server error: status statusText")
              [] up.kind = "json" -> RouteResponse(200, NULL)
              [] up.kind = "textjson" -> RouteResponse(200, NULL)
              [] up.kind = "text" ->
                   RouteResponse(502, "Invalid response format from math server")
              [] up.kind = "badjson" ->
                   RouteResponse(500, "Internal server error")]

\* The route handles one request.
HandlePost(body, up) ==
  /\ Len(routeLog) < MaxPosts
  /\ LET x == POST(body, up) IN
     routeLog' = Append(routeLog,
                   [body |-> body,
                    up |-> IF x.sent THEN up ELSE NoUpstream,
                    sent |-> x.sent, res |-> x.res])
  /\ UNCHANGED <<pageVars, editorVars, previewVars>>

RouteInit ==
  /\ variant = "page"
  /\ PageIdle
  /\ EditorIdle
  /\ PreviewIdle
  /\ RouteIdle

RouteNext == \E body \in RequestBodies, up \in UpstreamOutcomes :
               HandlePost(body, up)

RouteSpec == RouteInit /\ [][RouteNext]_vars

\* ========================================================================
\* Properties of the solve orchestrator
\* ========================================================================

\* A request is superseded once a later handleSolveEquation replaced its
\* controller in abortControllerRef.
Superseded(r) == r # abortControllerRef

\* C1: a request that was superseded by a later handleSolveEquation call
\* never writes the displayed state: when it settles (success, error or
\* abort) solutionData and errorMessage both keep their values.
C1_StaleOutcomeDiscarded ==
  [][(lastSolve'.op = "settle" /\ Superseded(lastSolve'.req))
       => (solutionData' = solutionData /\ errorMessage' = errorMessage)]_vars

\* C2: the cancellation message is displayed only when the cancelled request
\* is the latest one, i.e. no replacement request was submitted after it.
C2_CancellationSilent ==
  errorMessage = MsgCancelled
    => (abortControllerRef # 0 /\ controllers[abortControllerRef])

\* C3: at most one result is live: solutionData and errorMessage are never
\* both non-null.
C3_OneLiveResult == ~(solutionData # NoSolution /\ errorMessage # NULL)

\* C4: whenever a fetch has been issued, the signal of every earlier request
\* is already aborted: only the newest controller can be un-aborted.
C4_PreviousAborted ==
  /\ abortControllerRef = Len(controllers)
  /\ \A i \in 1..Len(controllers) : i < Len(controllers) => controllers[i]

\* C4 witness: a second fetch was issued while the first was still pending,
\* and the first one's signal is aborted.
C4_Witness ==
  /\ Len(controllers) >= 2
  /\ {1, 2} \subseteq pending
  /\ controllers[1]
  /\ ~controllers[2]

\* C5: once the view is unmounted every pending request's signal is aborted,
\* and a resolution arriving after the unmount changes no displayed state.
C5_UnmountCancels ==
  [][/\ ~mounted' => \A r \in pending' : controllers'[r]
     /\ ~mounted => /\ solutionData' = solutionData
                    /\ errorMessage' = errorMessage
                    /\ isLoading' = isLoading]_vars

\* C6: assuming every issued fetch settles, each submit is eventually
\* followed by a state with no request pending and, while the view is still
\* mounted, isLoading false.
C6_EventuallyIdle ==
  (lastSolve.op = "submit") ~> (pending = {} /\ (mounted => ~isLoading))

\* C6 witness: two requests were submitted, both settled, and the mounted
\* page is idle again.
C6_Witness ==
  /\ Len(controllers) >= 2
  /\ pending = {}
  /\ mounted
  /\ ~isLoading
  /\ lastSolve.op = "settle"

\* ========================================================================
\* Properties of the editor
\* ========================================================================

\* The element as it was before the last editor operation
Pre == lastEdit.el
PreLeft == Slice(Pre.value, 0, Pre.selStart)
PreSelected == Slice(Pre.value, Pre.selStart, Pre.selEnd)

EndsWith(s, t) ==
  Len(t) <= Len(s) /\ SubSeq(s, Len(s) - Len(t) + 1, Len(s)) = t

\* The last operation was a trigger key pressed with /c left of the caret
TriggerPressed == lastEdit.op = "key" /\ lastEdit.key \in TriggerKeys
CommandLeft(c) == EndsWith(PreLeft, <<"/">> \o c)
TriggerAfter(c) == TriggerPressed /\ CommandLeft(c)

\* The text that preceded the token /c
BeforeToken(c) == Slice(Pre.value, 0, Pre.selStart - Len(c) - 1)

Frac == <<"f", "r", "a", "c">>
XEqSlashFrac == <<"x", "=", "/", "f", "r", "a", "c">>
XEqFracSnippet == <<"x", "=", "\\", "f", "r", "a", "c", "{", "}", "{", "}">>

\* C7: a trigger key pressed with /c left of the caret, c a command of the
\* table, replaces exactly the span /c by template[c] (applied to the
\* selected text, empty when there is no selection); the text before the
\* token and the text from the caret on are kept and the key's character is
\* not inserted. In particular "x=/frac" + space gives "x=\frac{}{}".
C7_TriggerExpandsCommand ==
  /\ \A c \in CommandNames :
       TriggerAfter(c) =>
         value = BeforeToken(c) \o Template(c, PreSelected)
                   \o SliceFrom(Pre.value, Pre.selStart)
  /\ (TriggerPressed /\ Pre.value = XEqSlashFrac /\ Pre.selStart = 7
        /\ Pre.selEnd = 7)
       => value = XEqFracSnippet

\* C7 witness: space was pressed on "x=/frac" with the caret at the end and
\* the buffer is now "x=\frac{}{}".
C7_Witness ==
  /\ lastEdit.op = "key" /\ lastEdit.key = " "
  /\ Pre.value = XEqSlashFrac /\ Pre.selStart = 7 /\ Pre.selEnd = 7
  /\ value = XEqFracSnippet

\* C8 (as claimed): after /frac is expanded by a trigger key with no
\* selection, the caret is collapsed inside the first pair of braces of
\* \frac{}{}, six characters after the start of the snippet.
C8_CaretInFirstSlot ==
  (TriggerAfter(Frac) /\ Pre.selStart = Pre.selEnd)
    => (selStart = Len(BeforeToken(Frac)) + 6 /\ selEnd = selStart)

\* C8 (amended): after /frac is expanded by a trigger key with no
\* selection, the caret is collapsed immediately after the inserted snippet
\* \frac{}{}, nine characters after the start of the snippet.
C8_CaretAfterSnippet ==
  (TriggerAfter(Frac) /\ Pre.selStart = Pre.selEnd)
    => (selStart = Len(BeforeToken(Frac)) + 9 /\ selEnd = selStart)

\* C8 witness: Enter expanded /frac with no selection and text after the
\* caret, so that "after the snippet" is not the end of the buffer.
C8_Witness ==
  /\ lastEdit.op = "key" /\ lastEdit.key = "Enter" /\ lastEdit.expanded
  /\ CommandLeft(Frac)
  /\ Pre.selStart = Pre.selEnd
  /\ Pre.selStart < Len(Pre.value)
  /\ selStart = Len(BeforeToken(Frac)) + 9

\* C9: when /c is expanded while a non-empty selection is active and
\* template[c] takes the selection, the snippet replaces both the token and
\* the selected text: the buffer is the text before the token, the snippet
\* built around the selection, and the text that followed the selection.
C9_SelectionReplaced ==
  \A c \in CommandNames :
    (TriggerAfter(c) /\ Entry(c).arg /\ PreSelected # <<>>)
      => value = BeforeToken(c) \o Template(c, PreSelected)
                   \o SliceFrom(Pre.value, Pre.selEnd)

\* C10: a trigger key expands only an exact command of the table; when the
\* text left of the caret is not /c for a command c, nothing is expanded and
\* the key is inserted as ordinary text (Tab inserts the thin space).
C10_OnlyExactCommandsExpand ==
  (TriggerPressed /\ ~(\E c \in CommandNames : CommandLeft(c)))
    => /\ ~lastEdit.expanded
       /\ value = PreLeft
                    \o (IF lastEdit.key = "Tab" THEN ThinSpace
                        ELSE IF lastEdit.key = "Enter" THEN <<"\n">>
                        ELSE <<lastEdit.key>>)
                    \o SliceFrom(Pre.value, Pre.selEnd)

\* ------------------------------------------------------------------------
\* Recognizer state, stated on the text left of the caret

\* left ends in '/' followed by n identifier characters
TokenAt(left, n) ==
  /\ n < Len(left)
  /\ left[Len(left) - n] = "/"
  /\ \A i \in (Len(left) - n + 1)..Len(left) : left[i] \in IdentChars

\* Composing: left ends in /<identifier chars>; Idle otherwise
Composing(left) == \E n \in 0..Len(left) : TokenAt(left, n)
QueryLen(left) == CHOOSE n \in 0..Len(left) : TokenAt(left, n)
LiveQuery(left) ==
  IF Composing(left)
    THEN SubSeq(left, Len(left) - QueryLen(left) + 1, Len(left))
    ELSE <<>>

Left == Slice(value, 0, selStart)
Picked == lastEdit.op = "pick"

\* The text before the /query token that was left of the caret
BeforeQuery ==
  IF Composing(PreLeft)
    THEN Slice(Pre.value, 0, Pre.selStart - QueryLen(PreLeft) - 1)
    ELSE PreLeft

C12_IdleAfterExpand ==
  ((\E c \in CommandNames : TriggerAfter(c)) \/ Picked)
    => (~Composing(Left) /\ slashQ = <<>>)

\* C12 witness: with /s left of the caret the suggestion "sum" was picked,
\* which the query did not spell out, and the recognizer is Idle.
C12_Witness ==
  /\ Picked
  /\ LiveQuery(PreLeft) = <<"s">>
  /\ lastEdit.arg = <<"s", "u", "m">>
  /\ slashQ = <<>>

\* Number of occurrences of character ch in text
RECURSIVE Count(_, _)
Count(text, ch) ==
  IF text = <<>> THEN 0
  ELSE (IF Head(text) = ch THEN 1 ELSE 0) + Count(Tail(text), ch)

Closing(k) == IF k = "(" THEN ")" ELSE IF k = "[" THEN "]" ELSE "}"
PairPressed == lastEdit.op = "key" /\ lastEdit.key \in {"(", "[", "{"}

\* C13: typing '(', '[' or '{' is intercepted in every recognizer state: the
\* selection (possibly empty) is replaced by opening bracket + selection +
\* matching closing bracket, nothing is expanded, and the buffer gains
\* exactly one opening and one matching closing bracket.
C13_PairsAlwaysWrap ==
  PairPressed =>
    LET k == lastEdit.key IN
    /\ ~lastEdit.expanded
    /\ value = PreLeft \o <<k>> \o PreSelected \o <<Closing(k)>>
                 \o SliceFrom(Pre.value, Pre.selEnd)
    /\ Count(value, k) = Count(Pre.value, k) + 1
    /\ Count(value, Closing(k)) = Count(Pre.value, Closing(k)) + 1

\* C13 witness: '(' was typed while /frac, a known command, was left of the
\* caret, and the pair was inserted after the untouched token.
C13_Witness ==
  /\ PairPressed /\ lastEdit.key = "("
  /\ CommandLeft(Frac)
  /\ PreSelected = <<>>
  /\ Left = PreLeft \o <<"(", ")">>

\* C14: typing '(' with a non-empty selection s = buffer[start, end)
\* replaces it by (s), leaves the caret collapsed right after the closing
\* parenthesis at start + 1 + |s| + 1, and keeps the text before start and
\* the text from end on.
C14_ParenWrapsSelection ==
  (lastEdit.op = "key" /\ lastEdit.key = "(" /\ PreSelected # <<>>)
    => /\ value = PreLeft \o <<"(">> \o PreSelected \o <<")">>
                    \o SliceFrom(Pre.value, Pre.selEnd)
       /\ selStart = Pre.selStart + 1 + Len(PreSelected) + 1
       /\ selEnd = selStart
       /\ Slice(value, 0, Pre.selStart) = PreLeft
       /\ SliceFrom(value, selStart) = SliceFrom(Pre.value, Pre.selEnd)

\* C14 witness: '(' was typed with "x+1" selected and text after it.
C14_Witness ==
  /\ lastEdit.op = "key" /\ lastEdit.key = "("
  /\ PreSelected = <<"x", "+", "1">>
  /\ Pre.selEnd < Len(Pre.value)
  /\ Slice(value, Pre.selStart, selStart) = <<"(", "x", "+", "1", ")">>

\* The wrap each intercepted key asks for
WrapKeys == {"(", "[", "{", "^", "_"}
WrapPrefix(k) ==
  IF k = "^" THEN <<"{", "}", "^", "{">>
  ELSE IF k = "_" THEN <<"{", "}", "_", "{">> ELSE <<k>>
WrapSuffix(k) == IF k \in {"^", "_"} THEN <<"}">> ELSE <<Closing(k)>>
EmptyWrap ==
  lastEdit.op = "key" /\ lastEdit.key \in WrapKeys /\ PreSelected = <<>>

\* C15 (as claimed): wrapSelection with an empty selection inserts
\* prefix + suffix at the caret and leaves the caret between the two, at
\* start + |prefix|.
C15_CaretBetweenPair ==
  EmptyWrap =>
    /\ value = PreLeft \o WrapPrefix(lastEdit.key) \o WrapSuffix(lastEdit.key)
                 \o SliceFrom(Pre.value, Pre.selEnd)
    /\ selStart = Pre.selStart + Len(WrapPrefix(lastEdit.key))
    /\ selEnd = selStart

\* C15 (amended): wrapSelection with an empty selection inserts
\* prefix + suffix at the caret and leaves the caret after the suffix, at
\* start + |prefix| + |suffix|.
C15_CaretAfterPair ==
  EmptyWrap =>
    /\ value = PreLeft \o WrapPrefix(lastEdit.key) \o WrapSuffix(lastEdit.key)
                 \o SliceFrom(Pre.value, Pre.selEnd)
    /\ selStart = Pre.selStart + Len(WrapPrefix(lastEdit.key))
                    + Len(WrapSuffix(lastEdit.key))
    /\ selEnd = selStart

\* C15 witness: '^' was typed with nothing selected and text after the
\* caret; {}^{} was inserted and the caret is behind it.
C15_Witness ==
  /\ EmptyWrap /\ lastEdit.key = "^"
  /\ Pre.selStart < Len(Pre.value)
  /\ Slice(value, Pre.selStart, selStart) = <<"{", "}", "^", "{", "}">>

TabPressed == lastEdit.op = "key" /\ lastEdit.key = "Tab"
ThinSpaceInserted ==
  value = PreLeft \o <<"\\", ",", " ">> \o SliceFrom(Pre.value, Pre.selEnd)

SameLetter(a, b) ==
  a = b \/ \E i \in 1..Len(Uppers) : {a, b} = {Uppers[i], Lowers[i]}
StartsWithCI(k, q) ==
  Len(q) <= Len(k) /\ \A i \in 1..Len(q) : SameLetter(k[i], q[i])
Matching(q) ==
  { i \in 1..Len(ALL_COMMANDS) : StartsWithCI(ALL_COMMANDS[i], q) }

\* C17: for the query q the suggestion list is the first 8 commands, in
\* declaration order, whose name starts with q case-insensitively: its j-th
\* entry is the j-th such command; nothing is offered when q is empty.
C17_SuggestionList ==
  LET items == PaletteItems(slashQ)
      m == Matching(slashQ)
  IN /\ Len(items) = (IF Cardinality(m) < 8 THEN Cardinality(m) ELSE 8)
     /\ \A j \in 1..Len(items) :
          \E i \in m : /\ ALL_COMMANDS[i] = items[j]
                       /\ Cardinality({ h \in m : h < i }) = j - 1
     /\ PaletteShown(slashQ) = (IF slashQ = <<>> THEN <<>> ELSE items)

\* C17 witness: with the query "s" the list offered sqrt, sub, sum, sin in
\* that order, and its fourth entry was picked.
C17_Witness ==
  /\ Picked
  /\ lastEdit.arg = <<"s", "i", "n">>
  /\ LiveQuery(PreLeft) = <<"s">>
  /\ PaletteShown(LiveQuery(PreLeft)) =
       << <<"s", "q", "r", "t">>, <<"s", "u", "b">>,
          <<"s", "u", "m">>, <<"s", "i", "n">> >>

PaletteClicked == lastEdit.op = "palette"

\* C18: a click on a symbol-palette entry replaces the range [start, end)
\* by exactly the entry's text, so the selected text is gone, leaves the
\* caret collapsed at start + |text|, and expands nothing: a token /c left
\* of the caret stays in the buffer.
C18_PaletteClickInserts ==
  PaletteClicked =>
    /\ value = PreLeft \o lastEdit.arg \o SliceFrom(Pre.value, Pre.selEnd)
    /\ selStart = Pre.selStart + Len(lastEdit.arg)
    /\ selEnd = selStart
    /\ ~lastEdit.expanded

\* C18 witness: \pi was clicked with /frac left of the caret and "x+1"
\* selected.
C18_Witness ==
  /\ PaletteClicked
  /\ lastEdit.arg = <<"\\", "p", "i">>
  /\ CommandLeft(Frac)
  /\ PreSelected = <<"x", "+", "1">>
  /\ Left = PreLeft \o <<"\\", "p", "i">>

C20_QueryRecomputed == lastEdit.op # "init" => slashQ = LiveQuery(Left)

\* C21: after any sequence of editor operations the selection range
\* satisfies 0 <= start <= end <= length of the buffer, and every insert,
\* wrap, trigger-key expansion, suggestion pick and palette click leaves
\* the selection collapsed (start = end).
C21_SelectionInRange ==
  /\ 0 <= selStart /\ selStart <= selEnd /\ selEnd <= Len(value)
  /\ lastEdit.op \in {"key", "pick", "palette"} => selStart = selEnd

\* C21 witness: a suggestion was picked while "x+1" was selected and text
\* followed; the selection is collapsed inside the buffer.
C21_Witness ==
  /\ Picked
  /\ PreSelected = <<"x", "+", "1">>
  /\ selStart = selEnd
  /\ selEnd < Len(value)

\* ------------------------------------------------------------------------
\* Properties of the preview

LatestEffect == effects[Len(effects)]

\* C22: when the render requested last, for the current text, has
\* completed successfully, the markup shown is the one produced from that
\* text, whatever the renders requested earlier did and whenever they
\* complete: an earlier render never overwrites it.
C22_LatestRenderWins ==
  (previewMounted /\ LatestEffect.outcome = "ok")
    => Shown = [kind |-> "markup",
                text |-> renderToString(RenderInput(latex)).tex]

\* C22 witness: renders were requested for two texts with different
\* markup, the later one completed first, the earlier one afterwards, and
\* the later markup is shown.
C22_Witness ==
  /\ previewMounted
  /\ Len(effects) = 2
  /\ RenderInput(effects[1].latex) # RenderInput(effects[2].latex)
  /\ effects[1].outcome = "ok" /\ effects[2].outcome = "ok"
  /\ lastRender = [op |-> "settle", eff |-> 1]
  /\ html = renderToString(RenderInput(effects[2].latex))

\* C23: when the render for the current text has failed, the preview shows
\* the raw current text; it is neither blank for a non-empty text nor the
\* markup of an older text.
C23_FailureShowsRawText ==
  (previewMounted /\ LatestEffect.outcome = "throw")
    => Shown = [kind |-> "raw", text |-> latex]

\* C23 witness: the first text was rendered, the text changed, and the
\* render of the new text failed; the new raw text is shown.
C23_Witness ==
  /\ previewMounted
  /\ Len(effects) = 2
  /\ effects[1].outcome = "ok" /\ effects[2].outcome = "throw"
  /\ lastRender = [op |-> "settle", eff |-> 2]
  /\ latex # <<>>
  /\ Shown = [kind |-> "raw", text |-> latex]

\* ------------------------------------------------------------------------
\* Properties of the solve orchestrator: failures, loading flag, controls

Settled == lastSolve.op = "settle" /\ mounted

\* C24: when the response has a success status but its body is not JSON,
\* the message shown is a generic one and not the parser's own message.
C24_GenericInvalidResponse ==
  (Settled /\ lastSolve.out.kind = "badjson")
    => errorMessage # lastSolve.out.message

\* C25: when the solver answers non-2xx with a body {error, details?}, the
\* state shown carries the server's message and, when present, its details.
C25_ErrorCarriesDetails ==
  (Settled /\ lastSolve.out.kind = "http" /\ lastSolve.out.body = "error")
    => /\ ShownError.message = "Math server error"
       /\ ShownError.details = lastSolve.out.details

\* C26: isLoading is true whenever a request that has not been aborted is
\* still pending.
C26_LoadingWhilePending ==
  (mounted /\ \E r \in pending : ~controllers[r]) => isLoading

\* C27: through the page's controls at most one request is in flight.
C27_OneRequestInFlight == Cardinality(pending) <= 1

\* C27 witness: the first request settled and a second one was started by
\* a later click; it is the only one in flight.
C27_Witness ==
  /\ lastSolve.op = "submit" /\ lastSolve.req = 2
  /\ pending = {2}
  /\ isLoading

AllWhitespace(f) == \A i \in 1..Len(f) : f[i] \in {" ", "\t", "\n"}

\* C28: handleSolveEquation with an empty or whitespace-only formula issues
\* no request, aborts nothing, and leaves solutionData, errorMessage and
\* isLoading unchanged.
C28_BlankIsNoOp ==
  [][(lastSolve'.op \in {"blank", "submit"} /\ lastSolve' # lastSolve
        /\ AllWhitespace(inputFormula))
      => UNCHANGED <<pending, controllers, abortControllerRef,
                     solutionData, errorMessage, isLoading>>]_vars

\* C28 witness: handleSolveEquation ran on the formula " " while a request
\* that was not aborted was pending and a result was awaited.
C28_Witness ==
  /\ lastSolve.op = "blank"
  /\ inputFormula = <<" ">>
  /\ \E r \in pending : ~controllers[r]
  /\ isLoading

\* ------------------------------------------------------------------------
\* Frame of expandSlashCommand

LastPost == routeLog[Len(routeLog)]
NoFormula(body) ==
  body.kind \in {"null", "object"} /\ body.formula \in {Undefined, <<>>}

\* C30: a request whose body has a missing or empty formula is answered
\* with status 400 and "Formula is required" and the upstream server is not
\* contacted; the upstream server is contacted only for a non-empty formula.
C30_FormulaRequired ==
  routeLog # <<>> =>
    /\ NoFormula(LastPost.body) =>
         /\ LastPost.res = [status |-> 400, error |-> "Formula is required"]
         /\ ~LastPost.sent
    /\ LastPost.sent =>
         (LastPost.body.kind = "object" /\ ~NoFormula(LastPost.body))

====
